---- MODULE Spec2Model ----
(***************************************************************************)
(* Model of src/src/codegen/index.ts: the generation pipeline (generate,   *)
(* runAntlr, generateCode, generateParser, generateVisitor, replaceClass)  *)
(* and the tree utilities (findNodes, dump, getCodeRange).                 *)
(*                                                                         *)
(* Strings built by interpolation are tuples of their parts                *)
(* (`./antlr/${name}` is <<"./antlr/", name>>); file paths are tuples of   *)
(* their segments.                                                         *)
(***************************************************************************)
EXTENDS Integers, Sequences, FiniteSets, TLC

VARIABLES
    parser,     \* generate: the Rule Model passed to generate
    tpl,        \* generate: the template module parser.tpl.ts
    pc,         \* generate: position of the run
    error,      \* generate: the Error the run was rejected with, <<>> if none
    ioLog,      \* generate: the I/O calls issued so far, in order
    files,      \* generate: the paths present on disk
    project,    \* generate: the in-memory ts-morph Project
    rw,         \* replaceClass: the call's arguments, the file and the position
    finder,     \* findNodes: the tree, the arguments, the result and the position
    dumper      \* dump: the source text, the tree, the sink and the position

genVars == <<parser, tpl, pc, error, ioLog, files, project>>

utilVars == <<rw, finder, dumper>>

vars == <<parser, tpl, pc, error, ioLog, files, project, rw, finder, dumper>>

Idle == [pc |-> "idle"]

----------------------------------------------------------------------------
(* Bounds *)

MaxRules == 2
MaxExit == 2
MaxStmts == 2

----------------------------------------------------------------------------
(* Inputs of generate *)

DIR == "generated"

Names == {"AntlrLexer", "AntlrParser", "CalcLexer", "CalcParser"}

RuleNames == {"program", "word"}

ExitCodes == 0..MaxExit

Rules == UNION {[1..n -> [name : RuleNames]] : n \in 0..MaxRules}

Parsers == [name : Names, lexer : [name : Names], rules : Rules]

Ident(name) == [kind |-> "Identifier", text |-> <<name>>]

Typed(name) == [kind |-> "Typed", text |-> <<name>>]

Str(parts) == [kind |-> "StringLiteral", text |-> parts]

(* The tokens of the template that the rewriter can meet: each placeholder *)
(* as an identifier, as the type of a node that has setType, and inside a  *)
(* string literal; and the name of the class Parser.                       *)
TemplateSites ==
    << Ident("AntlrLexer"), Typed("AntlrLexer"), Str(<<"AntlrLexer">>),
       Ident("AntlrParser"), Typed("AntlrParser"), Str(<<"AntlrParser">>),
       Ident("Parser") >>

StmtKinds == {"VariableStatement", "ExpressionStatement"}

Statements == UNION {[1..n -> StmtKinds] : n \in 0..MaxStmts}

Templates ==
    {[hasClass |-> c, hasMethod |-> m, statements |-> s,
      sites |-> TemplateSites, initializer |-> <<"undefined">>] :
        <<c, m, s>> \in
            {x \in BOOLEAN \X BOOLEAN \X Statements :
                /\ (~x[1] => ~x[2])
                /\ (~x[2] => x[3] = <<>>)}}

antlrDir == <<DIR, "antlr">>

lexerFile(p) == <<DIR, "antlr", p.lexer.name, ".g4">>

parserFile(p) == <<DIR, "antlr", p.name, ".g4">>

ParserTs == <<DIR, "Parser.ts">>

VisitorTs == <<DIR, "Visitor.ts">>

NoError == <<>>

Err(msg, code) == <<[msg |-> msg, code |-> code]>>

Io(op, path, code) == [op |-> op, path |-> path, code |-> code]

----------------------------------------------------------------------------
(* generate, runAntlr *)

RulesEmptyNever(p) == FALSE

RulesEmpty(p) == Len(p.rules) = 0

ExitFailedAboveOne(code) == code > 1

ExitFailed(code) == code # 0

Fail(e) ==
    /\ pc' = "failed"
    /\ error' = e

Generate ==
    /\ pc = "generate"
    /\ IF RulesEmpty(parser)
       THEN Fail(Err("Empty Parser rules", 0))
       ELSE pc' = "mkdir" /\ UNCHANGED error
    /\ UNCHANGED <<parser, tpl, ioLog, files, project>>
    /\ UNCHANGED utilVars

Mkdir ==
    /\ pc = "mkdir"
    /\ ioLog' = Append(ioLog, Io("mkdir", antlrDir, 0))
    /\ \E ok \in BOOLEAN :
        IF ok
        THEN /\ files' = files \cup {<<DIR>>, antlrDir}
             /\ pc' = "writeFile"
             /\ UNCHANGED error
        ELSE /\ Fail(Err("mkdir failed", 0))
             /\ UNCHANGED files
    /\ UNCHANGED <<parser, tpl, project>>
    /\ UNCHANGED utilVars

WriteGrammars ==
    /\ pc = "writeFile"
    /\ ioLog' = ioLog \o << Io("writeFile", lexerFile(parser), 0),
                            Io("writeFile", parserFile(parser), 0) >>
    /\ \E okLexer \in BOOLEAN, okParser \in BOOLEAN :
        /\ files' = files
                \cup (IF okLexer THEN {lexerFile(parser)} ELSE {})
                \cup (IF okParser THEN {parserFile(parser)} ELSE {})
        /\ IF okLexer /\ okParser
           THEN pc' = "antlrLexer" /\ UNCHANGED error
           ELSE Fail(Err("writeFile failed", 0))
    /\ UNCHANGED <<parser, tpl, project>>
    /\ UNCHANGED utilVars

SpawnLexer ==
    /\ pc = "antlrLexer"
    /\ \E code \in ExitCodes :
        /\ ioLog' = Append(ioLog, Io("spawn", lexerFile(parser), code))
        /\ IF ExitFailed(code)
           THEN Fail(Err("antlr4ts on lexer exited with code", code))
           ELSE pc' = "antlrParser" /\ UNCHANGED error
    /\ UNCHANGED <<parser, tpl, files, project>>
    /\ UNCHANGED utilVars

SpawnParser ==
    /\ pc = "antlrParser"
    /\ \E code \in ExitCodes :
        /\ ioLog' = Append(ioLog, Io("spawn", parserFile(parser), code))
        /\ IF ExitFailed(code)
           THEN Fail(Err("antlr4ts on parser exited with code", code))
           ELSE pc' = "generateCode" /\ UNCHANGED error
    /\ UNCHANGED <<parser, tpl, files, project>>
    /\ UNCHANGED utilVars

----------------------------------------------------------------------------
(* replaceClass *)

replaceIdentifierAny(file, original, replacement) ==
    [file EXCEPT !.sites =
        [i \in DOMAIN @ |->
            IF @[i].kind = "Identifier"
            THEN [@[i] EXCEPT !.text = <<replacement>>]
            ELSE @[i]]]

replaceIdentifier(file, original, replacement) ==
    [file EXCEPT !.sites =
        [i \in DOMAIN @ |->
            IF @[i].kind = "Identifier" /\ @[i].text = <<original>>
            THEN [@[i] EXCEPT !.text = <<replacement>>]
            ELSE @[i]]]

replaceTypeNever(file, original, replacement) == file

replaceType(file, original, replacement) ==
    [file EXCEPT !.sites =
        [i \in DOMAIN @ |->
            IF @[i].kind = "Typed" /\ @[i].text = <<original>>
            THEN [@[i] EXCEPT !.text = <<replacement>>]
            ELSE @[i]]]

replaceClass(file, original, replacement) ==
    replaceIdentifier(replaceType(file, original, replacement),
                      original, replacement)

----------------------------------------------------------------------------
(* generateCode, generateParser, generateVisitor *)

generateVisitor(proj, p) ==
    [proj EXCEPT !.Visitor =
        << [imports |-> << [moduleSpecifier |-> <<"./antlr/", p.name, "Visitor">>,
                            namedImports |-> << <<p.name, "Visitor">> >>] >>] >>]

GenerateCode ==
    /\ pc = "generateCode"
    /\ project' = generateVisitor([Parser |-> <<>>, Visitor |-> <<>>], parser)
    /\ pc' = "copy"
    /\ UNCHANGED <<parser, tpl, error, ioLog, files>>
    /\ UNCHANGED utilVars

CopyTemplate ==
    /\ pc = "copy"
    /\ \E outcome \in {"ok", "tplDir fails", "copy fails"} :
        /\ ioLog' = IF outcome = "tplDir fails" THEN ioLog
                    ELSE Append(ioLog, Io("copySync", ParserTs, 0))
        /\ IF outcome = "ok"
           THEN /\ files' = files \cup {ParserTs}
                /\ project' = [project EXCEPT !.Parser = <<tpl>>]
                /\ pc' = "imports"
                /\ UNCHANGED error
           ELSE /\ Fail(Err(outcome, 0))
                /\ UNCHANGED <<files, project>>
    /\ UNCHANGED <<parser, tpl>>
    /\ UNCHANGED utilVars

importSites(p) ==
    << Ident(p.lexer.name), Str(<<"./antlr/", p.lexer.name>>),
       Ident(p.name), Str(<<"./antlr/", p.name>>) >>

AttachImports ==
    /\ pc = "imports"
    /\ IF project.Parser = <<>>
       THEN /\ Fail(Err("Failed to copy Parser template source file", 0))
            /\ UNCHANGED project
       ELSE /\ project' = [project EXCEPT
                    !.Parser[1].sites = importSites(parser) \o @]
            /\ pc' = "replaceLexer"
            /\ UNCHANGED error
    /\ UNCHANGED <<parser, tpl, ioLog, files>>
    /\ UNCHANGED utilVars

RewriteLexer ==
    /\ pc = "replaceLexer"
    /\ project' = [project EXCEPT
            !.Parser[1] = replaceClass(@, "AntlrLexer", parser.lexer.name)]
    /\ pc' = "replaceParser"
    /\ UNCHANGED <<parser, tpl, error, ioLog, files>>
    /\ UNCHANGED utilVars

RewriteParser ==
    /\ pc = "replaceParser"
    /\ project' = [project EXCEPT
            !.Parser[1] = replaceClass(@, "AntlrParser", parser.name)]
    /\ pc' = "bind"
    /\ UNCHANGED <<parser, tpl, error, ioLog, files>>
    /\ UNCHANGED utilVars

rootRuleLast(p) == p.rules[Len(p.rules)]

rootRule(p) == p.rules[1]

(* Lines 83-87: the error the binder throws on this file, <<>> if none. *)
bindError(file) ==
    IF ~file.hasClass
    THEN Err("Expected to find class named 'Parser'", 0)
    ELSE IF ~file.hasMethod
    THEN Err("Expected to find method named 'buildAST'", 0)
    ELSE IF Len(file.statements) = 0
    THEN Err("TypeError: Cannot read properties of undefined", 0)
    ELSE IF file.statements[1] # "VariableStatement"
    THEN Err("Expected syntax kind VariableStatement", 0)
    ELSE NoError

BindEntryPoint ==
    /\ pc = "bind"
    /\ LET file == project.Parser[1] IN
        IF bindError(file) # NoError
        THEN /\ Fail(bindError(file))
             /\ UNCHANGED project
        ELSE /\ project' = [project EXCEPT !.Parser[1].initializer =
                    <<"this._parser['", rootRule(parser).name, "']()">>]
             /\ pc' = "save"
             /\ UNCHANGED error
    /\ UNCHANGED <<parser, tpl, ioLog, files>>
    /\ UNCHANGED utilVars

Save ==
    /\ pc = "save"
    /\ ioLog' = Append(ioLog, Io("save", <<DIR>>, 0))
    /\ \E okParser \in BOOLEAN, okVisitor \in BOOLEAN :
        /\ files' = files
                \cup (IF okParser THEN {ParserTs} ELSE {})
                \cup (IF okVisitor THEN {VisitorTs} ELSE {})
        /\ IF okParser /\ okVisitor
           THEN pc' = "done" /\ UNCHANGED error
           ELSE Fail(Err("save failed", 0))
    /\ UNCHANGED <<parser, tpl, project>>
    /\ UNCHANGED utilVars

----------------------------------------------------------------------------

InitGen ==
    /\ parser \in Parsers
    /\ tpl \in Templates
    /\ pc = "generate"
    /\ error = NoError
    /\ ioLog = <<>>
    /\ files = {}
    /\ project = [Parser |-> <<>>, Visitor |-> <<>>]
    /\ rw = Idle
    /\ finder = Idle
    /\ dumper = Idle

NextGen ==
    \/ Generate
    \/ Mkdir
    \/ WriteGrammars
    \/ SpawnLexer
    \/ SpawnParser
    \/ GenerateCode
    \/ CopyTemplate
    \/ AttachImports
    \/ RewriteLexer
    \/ RewriteParser
    \/ BindEntryPoint
    \/ Save

Spec == InitGen /\ [][NextGen]_vars

----------------------------------------------------------------------------
(* Claims about generate *)

Ops == {ioLog[i].op : i \in DOMAIN ioLog}

IsSpawn(e) == e.op = "spawn"

Spawns == SelectSeq(ioLog, IsSpawn)

(* C1: when a run has ended, by success or by any failure, the Parser      *)
(* module and the Visitor module are both on disk or both absent.          *)
C1_BothModulesOrNeither ==
    pc \in {"done", "failed"} => ((ParserTs \in files) <=> (VisitorTs \in files))

(* C2: with an empty rule list generate fails with 'Empty Parser rules'    *)
(* before any I/O: nothing is created, written, spawned or copied.         *)
C2_EmptyRulesFailBeforeIO ==
    Len(parser.rules) = 0 =>
        /\ pc \in {"generate", "failed"}
        /\ ioLog = <<>>
        /\ files = {}
        /\ project = [Parser |-> <<>>, Visitor |-> <<>>]
        /\ (pc = "failed" => error = Err("Empty Parser rules", 0))

C2_Witness ==
    /\ Len(parser.rules) = 0
    /\ pc = "failed"
    /\ error = Err("Empty Parser rules", 0)

(* C3: a non-zero exit code of the grammar compiler ends the run with an   *)
(* error naming the stage (the first spawn is the lexer grammar, the       *)
(* second the parser grammar) and carrying the code; nothing is issued     *)
(* after the failed spawn, so the parser grammar is not compiled after a   *)
(* lexer failure, generateCode never runs (no project, no template copy,   *)
(* no module, no save) and no stage is spawned twice.                      *)
C3_CompilerFailureAborts ==
    /\ Len(Spawns) <= 2
    /\ \A i \in DOMAIN ioLog :
        (ioLog[i].op = "spawn" /\ ioLog[i].code # 0) =>
            /\ i = Len(ioLog)
            /\ pc = "failed"
            /\ error = Err(IF Len(Spawns) = 1
                           THEN "antlr4ts on lexer exited with code"
                           ELSE "antlr4ts on parser exited with code",
                           ioLog[i].code)
            /\ ioLog[i].path = IF Len(Spawns) = 1 THEN lexerFile(parser)
                               ELSE parserFile(parser)
            /\ project = [Parser |-> <<>>, Visitor |-> <<>>]
            /\ ParserTs \notin files
            /\ VisitorTs \notin files
            /\ Ops \cap {"copySync", "save"} = {}

C3_Witness ==
    /\ pc = "failed"
    /\ Len(Spawns) = 2
    /\ Spawns[1].code = 0
    /\ Spawns[2].code # 0
    /\ error = Err("antlr4ts on parser exited with code", Spawns[2].code)

BadShape(t) ==
    \/ ~t.hasClass
    \/ ~t.hasMethod
    \/ Len(t.statements) = 0
    \/ t.statements[1] # "VariableStatement"

(* C8: the binding step fails whenever the template has no class Parser,   *)
(* no method buildAST, or a first statement that is missing or is not a    *)
(* variable declaration, and then the run is over and save is never        *)
(* issued; on a template of the expected shape the step sets the first     *)
(* declarator's initializer to the call keyed by the first rule's name.    *)
C8_BindFailsOrBindsRoot ==
    /\ [](BadShape(tpl) => (pc \notin {"save", "done"} /\ "save" \notin Ops))
    /\ [][pc = "bind" =>
            IF BadShape(tpl)
            THEN /\ pc' = "failed"
                 /\ error' # NoError
                 /\ ioLog' = ioLog
                 /\ files' = files
            ELSE /\ pc' = "save"
                 /\ error' = NoError
                 /\ project'.Parser[1].initializer =
                        <<"this._parser['", parser.rules[1].name, "']()">>]_vars
    /\ [][pc = "failed" => pc' = "failed"]_vars

C8_Witness ==
    /\ pc = "failed"
    /\ project.Parser # <<>>
    /\ tpl.hasClass /\ tpl.hasMethod
    /\ Len(tpl.statements) = 2
    /\ tpl.statements[1] = "ExpressionStatement"
    /\ tpl.statements[2] = "VariableStatement"
    /\ error = Err("Expected syntax kind VariableStatement", 0)
    /\ "save" \notin Ops

RewritesDone ==
    /\ project.Parser # <<>>
    /\ pc \in {"bind", "save", "done", "failed"}

PlaceholdersRead ==
    LET s == project.Parser[1].sites
        n == Len(s) - Len(tpl.sites)
    IN  /\ n = 4
        /\ s[1] = Ident(parser.lexer.name)
        /\ s[3] = Ident(parser.name)
        /\ \A i \in DOMAIN tpl.sites :
            tpl.sites[i].kind \in {"Identifier", "Typed"} =>
                /\ tpl.sites[i].text = <<"AntlrLexer">> =>
                        s[n + i].text = <<parser.lexer.name>>
                /\ tpl.sites[i].text = <<"AntlrParser">> =>
                        s[n + i].text = <<parser.name>>

(* C10 as stated: for every lexer name and parser name, after both         *)
(* rewrites every lexer-placeholder site and the lexer import read the     *)
(* lexer name and every parser-placeholder site and the parser import read *)
(* the parser name.                                                        *)
C10_NoInterferenceAnyNames ==
    RewritesDone => PlaceholdersRead

(* C10 amended: the same, for every lexer name other than the parser       *)
(* placeholder AntlrParser and every parser name other than the lexer      *)
(* placeholder AntlrLexer.                                                 *)
C10_NoInterferenceReservedNames ==
    (RewritesDone /\ parser.lexer.name # "AntlrParser" /\ parser.name # "AntlrLexer")
        => PlaceholdersRead

C10_Witness ==
    /\ RewritesDone
    /\ parser.lexer.name = "CalcLexer"
    /\ parser.name = "AntlrParser"
    /\ project.Parser[1].sites[5] = Ident("CalcLexer")
    /\ project.Parser[1].sites[8] = Ident("AntlrParser")

----------------------------------------------------------------------------
(* replaceClass on any file *)

MaxSites == 3

SiteTexts == {"AntlrLexer", "CalcLexer", "input"}

SiteKinds == {"Identifier", "Typed", "StringLiteral"}

Sites == [kind : SiteKinds, text : {<<x>> : x \in SiteTexts}]

SiteSeqs == UNION {[1..n -> Sites] : n \in 0..MaxSites}

InitRewrite ==
    /\ \E s \in SiteSeqs, original \in SiteTexts, replacement \in SiteTexts :
        rw = [pc |-> "call", file |-> [sites |-> s], before |-> s,
              original |-> original, replacement |-> replacement]
    /\ parser = Idle /\ tpl = Idle /\ pc = "idle" /\ error = NoError
    /\ ioLog = <<>> /\ files = {} /\ project = Idle
    /\ finder = Idle /\ dumper = Idle

ReplaceClass ==
    /\ rw.pc = "call"
    /\ rw' = [rw EXCEPT !.file = replaceClass(@, rw.original, rw.replacement),
                        !.pc = "returned"]
    /\ UNCHANGED <<genVars, finder, dumper>>

NextRewrite == ReplaceClass

SpecRewrite == InitRewrite /\ [][NextRewrite]_vars

Matching(s, original) ==
    {i \in DOMAIN s : s[i].kind \in {"Identifier", "Typed"} /\ s[i].text = <<original>>}

ExactlyMatchingRewritten ==
    LET before == rw.before
        after == rw.file.sites
    IN  /\ DOMAIN after = DOMAIN before
        /\ \A i \in Matching(before, rw.original) :
                after[i] = [before[i] EXCEPT !.text = <<rw.replacement>>]
        /\ \A i \in DOMAIN before \ Matching(before, rw.original) :
                after[i] = before[i]

NoOriginalIdentifier ==
    \A i \in DOMAIN rw.file.sites :
        ~(rw.file.sites[i].kind = "Identifier"
            /\ rw.file.sites[i].text = <<rw.original>>)

(* C7 as stated: after replaceClass no identifier reads original, the      *)
(* identifiers and typed nodes that read original now read replacement,    *)
(* every other token is unchanged, and the call always returns.            *)
C7_RewriteAnyNames ==
    rw.pc = "returned" => (NoOriginalIdentifier /\ ExactlyMatchingRewritten)

(* C7 amended: the same, where no identifier reading original remains      *)
(* provided replacement differs from original.                             *)
C7_RewriteDistinctNames ==
    rw.pc = "returned" =>
        /\ rw.replacement # rw.original => NoOriginalIdentifier
        /\ ExactlyMatchingRewritten

C7_Witness ==
    /\ rw.pc = "returned"
    /\ rw.original = "AntlrLexer"
    /\ rw.replacement = "CalcLexer"
    /\ rw.before = << Ident("AntlrLexer"), Typed("AntlrLexer"), Ident("input") >>
    /\ rw.file.sites = << Ident("CalcLexer"), Typed("CalcLexer"), Ident("input") >>

----------------------------------------------------------------------------
(* findNodes *)

MaxNodes == 4
MaxChildren == 2

NodeTypes == {"word", "clause"}

(* Child lists of a node whose possible children are the nodes 1..m: a     *)
(* tree is a heap of nodes, node identity is the index, and children have  *)
(* smaller indices than their parent, which keeps the tree acyclic while   *)
(* letting a node be the child of several parents.                         *)
ChildSeqs(m) ==
    {c \in UNION {[1..k -> 1..m] : k \in 0..MaxChildren} :
        \A i, j \in DOMAIN c : c[i] = c[j] => i = j}

RECURSIVE Trees(_)
Trees(n) ==
    IF n = 0 THEN {<<>>}
    ELSE {Append(t, [type |-> ty, children |-> c]) :
            t \in Trees(n - 1), ty \in NodeTypes, c \in ChildSeqs(n - 1)}

SetAddAgain(result, node) == Append(result, node)

(* Set.prototype.add: a Set keeps insertion order and ignores a value it   *)
(* already holds; nodes are compared by identity.                          *)
SetAdd(result, node) ==
    IF \E i \in DOMAIN result : result[i] = node THEN result
    ELSE Append(result, node)

RECURSIVE findNodes(_, _, _, _)
RECURSIVE findNodesFrom(_, _, _, _, _)

(* Line 207, then the loop of lines 208-210; the result is the Set as the  *)
(* sequence of its values in insertion order, which line 211 spreads.      *)
findNodes(heap, type, node, result) ==
    findNodesFrom(heap, type, heap[node].children, 1,
                  IF heap[node].type = type THEN SetAdd(result, node) ELSE result)

findNodesFrom(heap, type, children, k, result) ==
    IF k > Len(children) THEN result
    ELSE findNodesFrom(heap, type, children, k + 1,
                       findNodes(heap, type, children[k], result))

InitFind ==
    /\ \E t \in Trees(MaxNodes), ty \in NodeTypes :
        finder = [pc |-> "call", tree |-> t, type |-> ty, node |-> Len(t),
                  result |-> <<>>]
    /\ parser = Idle /\ tpl = Idle /\ pc = "idle" /\ error = NoError
    /\ ioLog = <<>> /\ files = {} /\ project = Idle
    /\ rw = Idle /\ dumper = Idle

FindNodes ==
    /\ finder.pc = "call"
    /\ finder' = [finder EXCEPT
            !.result = findNodes(finder.tree, finder.type, finder.node, <<>>),
            !.pc = "returned"]
    /\ UNCHANGED <<genVars, rw, dumper>>

NextFind == FindNodes

SpecFind == InitFind /\ [][NextFind]_vars

(* Claims about findNodes *)

RECURSIVE Reachable(_, _)
Reachable(heap, node) ==
    {node} \cup UNION {Reachable(heap, heap[node].children[k]) :
                            k \in DOMAIN heap[node].children}

RECURSIVE Flatten(_)
Flatten(ss) == IF ss = <<>> THEN <<>> ELSE Head(ss) \o Flatten(Tail(ss))

(* The visits of a depth-first pre-order walk, repeats included. *)
RECURSIVE PreOrder(_, _)
PreOrder(heap, node) ==
    <<node>> \o Flatten([k \in DOMAIN heap[node].children |->
                            PreOrder(heap, heap[node].children[k])])

(* s without every element that occurs earlier in s. *)
FirstOccurrences(s) ==
    LET keep == {i \in DOMAIN s : \A j \in 1..(i - 1) : s[j] # s[i]}
        RECURSIVE pick(_)
        pick(i) == IF i > Len(s) THEN <<>>
                   ELSE (IF i \in keep THEN <<s[i]>> ELSE <<>>) \o pick(i + 1)
    IN  pick(1)

(* C4: findNodes(T, root) returns exactly the nodes reachable from root    *)
(* through children whose type is T, each once, in the order of their      *)
(* first visit in depth-first pre-order; it is empty when none matches.    *)
C4_FindNodesFirstVisitOrder ==
    finder.pc = "returned" =>
        LET heap == finder.tree
            r == finder.result
            matches == {n \in Reachable(heap, finder.node) : heap[n].type = finder.type}
            IsMatch(n) == heap[n].type = finder.type
        IN  /\ {r[i] : i \in DOMAIN r} = matches
            /\ Len(r) = Cardinality(matches)
            /\ r = SelectSeq(FirstOccurrences(PreOrder(heap, finder.node)), IsMatch)
            /\ (matches = {} => r = <<>>)

(* The root and a node met first below the first child and again as the    *)
(* second child both match; the first child does not.                      *)
C4_Witness ==
    /\ finder.pc = "returned"
    /\ finder.type = "word"
    /\ finder.tree[4] = [type |-> "word", children |-> <<3, 1>>]
    /\ finder.tree[3] = [type |-> "clause", children |-> <<1, 2>>]
    /\ finder.tree[2].type = "word"
    /\ finder.tree[1].type = "word"
    /\ finder.result = <<4, 1, 2>>

----------------------------------------------------------------------------
(* dump, dump_inner, getCodeRange *)

MaxSrc == 3

Chars == {"a", "\r", "\n"}

Ctx(startIndex, stop) == [_start |-> [startIndex |-> startIndex], _stop |-> stop]

NoStop == <<>>

Stop(stopIndex) == <<[stopIndex |-> stopIndex]>>

Clamp(i, len) == IF i < 0 THEN 0 ELSE IF i > len THEN len ELSE i

(* String.prototype.substring: both indices are clamped to 0..length and   *)
(* swapped when the first exceeds the second.                              *)
substring(s, from, to) ==
    LET a == Clamp(from, Len(s))
        b == Clamp(to, Len(s))
        lo == IF a <= b THEN a ELSE b
        hi == IF a <= b THEN b ELSE a
    IN  SubSeq(s, lo + 1, hi)

getCodeRange(s, start, stop) ==
    substring(s, start.startIndex, stop.stopIndex + 1)

(* replace(/\r?\n/g, '\\n') *)
RECURSIVE replaceLineBreaks(_)
replaceLineBreaks(s) ==
    IF s = <<>> THEN <<>>
    ELSE IF Len(s) >= 2 /\ s[1] = "\r" /\ s[2] = "\n"
    THEN <<"\\", "n">> \o replaceLineBreaks(SubSeq(s, 3, Len(s)))
    ELSE IF s[1] = "\n"
    THEN <<"\\", "n">> \o replaceLineBreaks(Tail(s))
    ELSE <<s[1]>> \o replaceLineBreaks(Tail(s))

(* chalk wraps the text in the escape codes of the colour. *)
ColourMarks == {"<green>", "<cyan>", "<yellow>", "<reset>"}

chalk(colour, text) == <<colour>> \o text \o <<"<reset>">>

indentOnce(level) == [i \in 1..level |-> " "]

indent(level) == [i \in 1..(2 * level) |-> " "]

isOptions(node) == node.family = "options"

(* Lines 173-183: the line of one node. *)
line(s, heap, n, level) ==
    LET node == heap[n] IN
    indent(level)
    \o (IF isOptions(node)
        THEN chalk("<green>", <<heap[node.option].type>>)
        ELSE chalk("<cyan>", <<node.type>>))
    \o (IF node.ctx._stop # NoStop
        THEN <<":", " ">> \o chalk("<yellow>",
                replaceLineBreaks(getCodeRange(s, node.ctx._start, node.ctx._stop[1])))
        ELSE <<>>)

(* Lines 187-191: the children dump_inner descends into. *)
descent(heap, n) ==
    IF isOptions(heap[n]) THEN heap[heap[n].option].children
    ELSE heap[n].children

RECURSIVE dump_inner(_, _, _, _)
RECURSIVE dump_children(_, _, _, _, _)

(* What one call writes to the console, in order; each entry carries the   *)
(* node and the level of the call that wrote the line. dump_inner has no   *)
(* await, so the calls of the forEach run to their end one after another.  *)
dump_inner(s, heap, n, level) ==
    << [line |-> line(s, heap, n, level), node |-> n, level |-> level] >>
    \o dump_children(s, heap, descent(heap, n), 1, level + 1)

dump_children(s, heap, children, k, level) ==
    IF k > Len(children) THEN <<>>
    ELSE dump_inner(s, heap, children[k], level)
         \o dump_children(s, heap, children, k + 1, level)

NodeTypeNames == <<"program", "word", "clause", "stmt", "expr", "term">>

TypeOfNode(i) == NodeTypeNames[((i - 1) % Len(NodeTypeNames)) + 1]

(* The spans the nodes of a dumped tree carry over DumpSrc, handed out in  *)
(* rotation. *)
DumpSrc == <<"a", "\n", "a", "\r", "\n">>

DumpCtxs == << Ctx(0, NoStop), Ctx(0, Stop(0)), Ctx(0, Stop(4)),
               Ctx(2, Stop(4)), Ctx(1, Stop(2)) >>

CtxOfNode(i, base) == DumpCtxs[((i + base) % Len(DumpCtxs)) + 1]

(* The nodes node i of a heap can be: a plain node over the nodes before   *)
(* it, or a node of the options family whose option and only child are     *)
(* nodes before it.                                                        *)
NodesAt(i, base) ==
    {[type |-> TypeOfNode(i), family |-> "rule", option |-> 0,
      children |-> c, ctx |-> CtxOfNode(i, base)] : c \in ChildSeqs(i - 1)}
    \cup
    {[type |-> TypeOfNode(i), family |-> "options", option |-> o,
      children |-> <<c>>, ctx |-> CtxOfNode(i, base)] :
        o \in 1..(i - 1), c \in 1..(i - 1)}

RECURSIVE Heaps(_, _)
Heaps(n, base) ==
    IF n = 0 THEN {<<>>}
    ELSE {Append(t, node) : t \in Heaps(n - 1, base), node \in NodesAt(n, base)}

(* option: RuleAST and children: [RuleAST]: the option and the child of a  *)
(* node of the options family are plain nodes.                             *)
WellTyped(t) ==
    \A i \in DOMAIN t :
        t[i].family = "options" =>
            /\ t[t[i].option].family = "rule"
            /\ t[t[i].children[1]].family = "rule"

Asts(n, base) == {t \in Heaps(n, base) : WellTyped(t)}

InitDump ==
    /\ \E base \in 0..(Len(DumpCtxs) - 1) :
        \E t \in Asts(MaxNodes, base) :
            dumper = [pc |-> "call", src |-> DumpSrc, ast |-> t, root |-> Len(t),
                      sink |-> <<>>, calls |-> <<>>]
    /\ parser = Idle /\ tpl = Idle /\ pc = "idle" /\ error = NoError
    /\ ioLog = <<>> /\ files = {} /\ project = Idle
    /\ rw = Idle /\ finder = Idle

Dump ==
    /\ dumper.pc = "call"
    /\ LET out == dump_inner(dumper.src, dumper.ast, dumper.root, 0) IN
        dumper' = [dumper EXCEPT
            !.sink = [i \in DOMAIN out |-> out[i].line],
            !.calls = [i \in DOMAIN out |-> [node |-> out[i].node,
                                             level |-> out[i].level]],
            !.pc = "returned"]
    /\ UNCHANGED <<genVars, rw, finder>>

NextDump == Dump

SpecDump == InitDump /\ [][NextDump]_vars

(* One node with every span over every source text of MaxSrc characters:   *)
(* a start token at 0..MaxSrc (the end-of-input token starts at the        *)
(* length) and no stop token or one that ends at 0..MaxSrc-1. The stop     *)
(* token of a rule that matched nothing is the token before the rule, so   *)
(* a stop index below the start index is a span the parser produces.       *)
InitLine ==
    /\ \E s \in [1..MaxSrc -> Chars], startIndex \in 0..MaxSrc,
          stop \in {NoStop} \cup {Stop(e) : e \in 0..(MaxSrc - 1)} :
        dumper = [pc |-> "call", src |-> s,
                  ast |-> << [type |-> "program", family |-> "rule", option |-> 0,
                              children |-> <<>>, ctx |-> Ctx(startIndex, stop)] >>,
                  root |-> 1, sink |-> <<>>, calls |-> <<>>]
    /\ parser = Idle /\ tpl = Idle /\ pc = "idle" /\ error = NoError
    /\ ioLog = <<>> /\ files = {} /\ project = Idle
    /\ rw = Idle /\ finder = Idle

SpecLine == InitLine /\ [][NextDump]_vars

(* Claims about dump *)

IsVisible(c) == c \notin ColourMarks

Visible(l) == SelectSeq(l, IsVisible)

LeadingSpaces(l) ==
    CHOOSE k \in 0..Len(l) :
        /\ \A i \in 1..k : l[i] = " "
        /\ (k = Len(l) \/ l[k + 1] # " ")

Discriminant(l) == Visible(l)[LeadingSpaces(Visible(l)) + 1]

(* What follows the discriminant on the line. *)
Annotation(l) == SubSeq(Visible(l), LeadingSpaces(Visible(l)) + 2, Len(Visible(l)))

(* The characters of s at the indices from..to, both included. *)
InclusiveRange(s, from, to) ==
    LET idx == {i \in DOMAIN s : from <= i - 1 /\ i - 1 <= to}
        RECURSIVE pick(_)
        pick(i) == IF i > Len(s) THEN <<>>
                   ELSE (IF i \in idx THEN <<s[i]>> ELSE <<>>) \o pick(i + 1)
    IN  pick(1)

(* s with every LF and every CR LF turned into backslash, n. *)
Normalised(s) ==
    Flatten([i \in DOMAIN s |->
        IF s[i] = "\n" THEN <<"\\", "n">>
        ELSE IF s[i] = "\r" /\ i < Len(s) /\ s[i + 1] = "\n" THEN <<>>
        ELSE <<s[i]>>])

AnnotationOf(s, ctx) ==
    IF ctx._stop = NoStop THEN <<>>
    ELSE <<":", " ">> \o Normalised(
            InclusiveRange(s, ctx._start.startIndex, ctx._stop[1].stopIndex))

(* The nodes of the calls made directly by call i: the later calls one     *)
(* level deeper, up to the next call that is not deeper than call i.       *)
ChildCalls(i) ==
    LET c == dumper.calls
        js == {j \in DOMAIN c :
                /\ j > i
                /\ c[j].level = c[i].level + 1
                /\ \A k \in (i + 1)..j : c[k].level > c[i].level}
        RECURSIVE pick(_)
        pick(j) == IF j > Len(c) THEN <<>>
                   ELSE (IF j \in js THEN <<c[j].node>> ELSE <<>>) \o pick(j + 1)
    IN  pick(1)

(* C5: the line of a node of the options family shows the type and the     *)
(* span annotation of its option, and the descent goes into                *)
(* option.children; the line of any other node shows the node's own type   *)
(* and span annotation and the descent goes into its own children.         *)
C5_OptionsShownFromOption ==
    dumper.pc = "returned" =>
        \A i \in DOMAIN dumper.sink :
            LET node == dumper.ast[dumper.calls[i].node]
                shown == IF node.family = "options" THEN dumper.ast[node.option]
                         ELSE node
            IN  /\ Discriminant(dumper.sink[i]) = shown.type
                /\ Annotation(dumper.sink[i]) = AnnotationOf(dumper.src, shown.ctx)
                /\ ChildCalls(i) = shown.children

RECURSIVE Visits(_, _)
Visits(heap, n) ==
    LET cs == IF heap[n].family = "options" THEN heap[heap[n].option].children
              ELSE heap[n].children
        RECURSIVE sum(_)
        sum(k) == IF k > Len(cs) THEN 0 ELSE Visits(heap, cs[k]) + sum(k + 1)
    IN  1 + sum(1)

(* C6: when dump returns the sink holds one line per visit, in depth-first *)
(* pre-order: the first line is the root's at depth 0, the lines between   *)
(* a node's line and the next line that is not deeper are its subtree,     *)
(* child after child in order, and the line of a visit at depth d starts   *)
(* with exactly 2*d spaces.                                                *)
C6_PreOrderIndentedLines ==
    dumper.pc = "returned" =>
        /\ Len(dumper.sink) = Visits(dumper.ast, dumper.root)
        /\ Len(dumper.calls) = Len(dumper.sink)
        /\ dumper.calls[1] = [node |-> dumper.root, level |-> 0]
        /\ \A i \in DOMAIN dumper.calls :
            /\ i > 1 => dumper.calls[i].level >= 1
            /\ LeadingSpaces(Visible(dumper.sink[i])) = 2 * dumper.calls[i].level
            /\ ChildCalls(i) =
                    (IF dumper.ast[dumper.calls[i].node].family = "options"
                     THEN dumper.ast[dumper.ast[dumper.calls[i].node].option].children
                     ELSE dumper.ast[dumper.calls[i].node].children)

(* A child with a child of its own, then the next sibling. *)
C6_Witness ==
    /\ dumper.pc = "returned"
    /\ Len(dumper.calls) >= 4
    /\ dumper.calls[1].level = 0
    /\ dumper.calls[2].level = 1
    /\ dumper.calls[3].level = 2
    /\ dumper.calls[4].level = 1
    /\ LeadingSpaces(Visible(dumper.sink[3])) = 4
    /\ LeadingSpaces(Visible(dumper.sink[4])) = 2

(* C9: a line carries an annotation exactly when the node's ctx has a stop *)
(* token, and the annotation is then the source text from the start index  *)
(* to the stop index, both included, with every LF and CR LF written as    *)
(* backslash, n; without a stop token the line ends after the type.        *)
C9_AnnotationIsInclusiveSpan ==
    dumper.pc = "returned" =>
        \A i \in DOMAIN dumper.sink :
            LET node == dumper.ast[dumper.calls[i].node] IN
            Annotation(dumper.sink[i]) = AnnotationOf(dumper.src, node.ctx)

====
